---- MODULE Spec2Model ----
(***************************************************************************)
(* Document intake, document mutation, the revision ledger, the supplier   *)
(* registry and the exchange rates of the financial document platform      *)
(* (backend/server.py, ai_pipeline.py, document_processor.py,              *)
(* currency_engine.py), as a state machine.                                *)
(*                                                                         *)
(* The handlers are coroutines: each `await` on the database or on the     *)
(* extraction backend is a point where another request may run.  One       *)
(* action of this module is the code between two such points.  A request   *)
(* occupies a slot (upl for uploads, upd for updates, sup for supplier     *)
(* requests); a slot is used once.  Floats in 0..1 are kept as integer     *)
(* percentages.  Text is a TLA+ string, read by Len and SubSeq.            *)
(***************************************************************************)
EXTENDS Integers, FiniteSets, Sequences, TLC

\* ------------------------------------------------------------------ bounds
MaxUploads == 2
MaxUpdates == 3
MaxDocs == 1
MaxSupplierRequests == 2
MaxKnown == 2
MaxSyncs == 2
MaxRetries == 2
MaxEdits == 2

UploadSlots == 1..MaxUploads
UpdateSlots == 1..MaxUpdates
SupplierSlots == 1..MaxSupplierRequests
SyncSlots == 1..MaxSyncs

\* ------------------------------------------------------------- input sets
NULL == "null"

\* None where a record is expected: a local not yet assigned.
NoRecord == [none |-> TRUE]

Outlets == {"outlet1"}
Contents == {"bytesA", "bytesB"}
Dates == {"2024-03-01"}
ConfLevels == {59, 60}
Providers == {"gpt4o", "mock"}

\* Supplier names and GST ids, as stored and as read off a document.
SupplierNames == {"Metro", "Metro Cash"}
ExtractedNames == {"", "metro cash ", "Sysco"}
TaxIds == {"27AABCU9603R1ZM", "29AADCB2230M1ZV"}

\* The authenticated callers (get_current_user): id, role, org and outlets.
Users ==
    { [id |-> "owner1", role |-> "owner", org_id |-> "org1", outlet_ids |-> {"outlet1"}],
      [id |-> "staff1", role |-> "staff", org_id |-> "org1", outlet_ids |-> {}],
      [id |-> "owner2", role |-> "owner", org_id |-> "org2", outlet_ids |-> {"outlet1"}] }

\* 0.6, the review threshold, as a percentage.
ReviewThreshold == 60

\* ------------------------------------------------------------------ state
VARIABLES
    documents,          \* db.documents: a set of records
    document_versions,  \* db.document_versions: a set of records
    notifications,      \* db.notifications: a set of records
    files,              \* the files under UPLOAD_DIR, by document id
    upl,                \* upload requests, by slot
    upd,                \* update requests, by slot
    suppliers,          \* db.suppliers: a set of records
    sup,                \* create-supplier and update-supplier requests, by slot
    exchange_rates,     \* db.exchange_rates: a set of snapshots
    syn,                \* sync_daily_rates calls, by slot
    rq,                 \* the get_rate_for_date call in progress
    call                \* the call of a pure function in progress

\* What the document handlers leave alone, and what the others leave alone.
registry == <<suppliers, sup, exchange_rates, syn, rq, call>>
ledger == <<documents, document_versions, notifications, files, upl, upd>>

vars == <<ledger, registry>>

\* ----------------------------------------------------------------- hashing
\* hashlib.sha256(content).hexdigest(): a different digest for different bytes.
Sha256(content) == "sha256:" \o content

Hashes == {Sha256(c) : c \in Contents}

\* base64.b64encode(content).decode(): one text per byte string.
B64Encode(content) == "b64:" \o content

\* content_hash = file_hash or sha256(content)
ContentHash(file_hash, content) ==
    IF file_hash # NULL THEN file_hash ELSE Sha256(content)

\* db.documents.find({"org_id", "content_hash", "outlet_id"}): the matches of
\* the duplicate lookup; find_one returns one of them.
FindDuplicates(docs, org_id, content_hash, outlet_id) ==
    {d \in docs : d.org_id = org_id /\ d.content_hash = content_hash
                  /\ d.outlet_id = outlet_id}

\* -------------------------------------------------------------------- text
Uppers == "ABCDEFGHIJKLMNOPQRSTUVWXYZ"
Lowers == "abcdefghijklmnopqrstuvwxyz"
Digits == "0123456789"

\* The character of a text at position i, and whether a character is in a class.
CharAt(text, i) == SubSeq(text, i, i)
InClass(c, class) == \E i \in 1..Len(class) : CharAt(class, i) = c

\* The character at the place of c in the other alphabet; c itself otherwise.
Translate(c, from, to) ==
    IF InClass(c, from)
    THEN CharAt(to, CHOOSE i \in 1..Len(from) : CharAt(from, i) = c)
    ELSE c

\* str.lower() and str.upper()
RECURSIVE Lower(_)
Lower(text) ==
    IF text = "" THEN ""
    ELSE Translate(CharAt(text, 1), Uppers, Lowers) \o Lower(SubSeq(text, 2, Len(text)))

RECURSIVE Upper(_)
Upper(text) ==
    IF text = "" THEN ""
    ELSE Translate(CharAt(text, 1), Lowers, Uppers) \o Upper(SubSeq(text, 2, Len(text)))

\* str.strip(): without the blanks at either end.
RECURSIVE Strip(_)
Strip(text) ==
    IF text = "" THEN ""
    ELSE IF CharAt(text, 1) = " " THEN Strip(SubSeq(text, 2, Len(text)))
    ELSE IF CharAt(text, Len(text)) = " " THEN Strip(SubSeq(text, 1, Len(text) - 1))
    ELSE text

\* part in text
Contains(text, part) ==
    \E i \in 1..(Len(text) - Len(part) + 1) : SubSeq(text, i, i + Len(part) - 1) = part

\* `if value:` on an optional text: neither None nor empty.
Truthy(value) == value # NULL /\ value # ""

\* ------------------------------------------------------- supplier matching
\* The least index of a non-empty set of list positions: the first hit of a loop.
FirstIndex(hits) == CHOOSE i \in hits : \A j \in hits : i <= j

\* The positions of the suppliers whose gst_id equals the extracted one.
GstHits(supplier_gst, existing_suppliers) ==
    {i \in DOMAIN existing_suppliers : existing_suppliers[i].gst_id = supplier_gst}

\* What the name loop decides on one supplier: exact, partial, or go on.
NameHit(name_lower, s) ==
    LET existing_name == Strip(Lower(s.name))
    IN  IF name_lower = existing_name THEN "exact_name"
        ELSE IF Contains(existing_name, name_lower) \/ Contains(name_lower, existing_name)
        THEN "partial_name"
        ELSE "none"

NameHits(name_lower, existing_suppliers) ==
    {i \in DOMAIN existing_suppliers : NameHit(name_lower, existing_suppliers[i]) # "none"}

\* The name loop of match_supplier: the first supplier that matches either way.
MatchByName(supplier_name, existing_suppliers) ==
    LET name_lower == Strip(Lower(supplier_name))
        hits == NameHits(name_lower, existing_suppliers)
        s == existing_suppliers[FirstIndex(hits)]
    IN  IF hits = {}
        THEN [matched_id |-> NULL, confidence |-> 0, method |-> "no_match"]
        ELSE IF NameHit(name_lower, s) = "exact_name"
        THEN [matched_id |-> s.id, confidence |-> 95, method |-> "exact_name"]
        ELSE [matched_id |-> s.id, confidence |-> 75, method |-> "partial_name"]

\* match_supplier with the name tried before the GST id.
MatchSupplierNameFirst(supplier_name, supplier_gst, existing_suppliers) ==
    LET by_name == IF Truthy(supplier_name)
                   THEN MatchByName(supplier_name, existing_suppliers)
                   ELSE [matched_id |-> NULL, confidence |-> 0, method |-> "no_match"]
        hits == GstHits(supplier_gst, existing_suppliers)
    IN  IF by_name.matched_id # NULL THEN by_name
        ELSE IF Truthy(supplier_gst) /\ hits # {}
        THEN [matched_id |-> existing_suppliers[FirstIndex(hits)].id,
              confidence |-> 98, method |-> "gst_match"]
        ELSE by_name

\* match_supplier: the GST id first, then the name, then no match.
match_supplier(supplier_name, supplier_gst, existing_suppliers) ==
    LET hits == GstHits(supplier_gst, existing_suppliers)
    IN  IF Truthy(supplier_gst) /\ hits # {}
        THEN [matched_id |-> existing_suppliers[FirstIndex(hits)].id,
              confidence |-> 98, method |-> "gst_match"]
        ELSE IF Truthy(supplier_name)
        THEN MatchByName(supplier_name, existing_suppliers)
        ELSE [matched_id |-> NULL, confidence |-> 0, method |-> "no_match"]

\* ------------------------------------------------------------- extraction
\* What a processor can return: the fields of ExtractionResult the handlers read.
ExtractionResults ==
    [document_date : Dates \cup {NULL},
     document_date_confidence : ConfLevels,
     extraction_confidence : ConfLevels,
     supplier_name : ExtractedNames,
     supplier_gst : TaxIds \cup {""},
     ai_provider_used : Providers,
     raw_ocr_text : {"ocr"}]

\* What MockProcessor().extract can return: extract_document_data keeps the
\* extraction confidence at 0.62 or more and always finds a date, whose
\* confidence may be as low as 0.5; the supplier is one of its samples.
MockResults ==
    {r \in ExtractionResults :
        /\ r.ai_provider_used = "mock"
        /\ r.document_date # NULL
        /\ r.extraction_confidence >= ReviewThreshold
        /\ r.supplier_name # "" /\ r.supplier_gst # ""}

\* The review flag with the threshold itself counted as low.
RequiresReviewInclusive(result) ==
    \/ result.document_date_confidence <= ReviewThreshold
    \/ result.document_date = NULL
    \/ result.extraction_confidence <= ReviewThreshold

\* requires_review = date_confidence < 0.6 or doc_date is None or confidence < 0.6
RequiresReview(result) ==
    \/ result.document_date_confidence < ReviewThreshold
    \/ result.document_date = NULL
    \/ result.extraction_confidence < ReviewThreshold

\* The document with its status taken from the extraction confidence alone.
NewDocumentByConfidence(doc_id, user, outlet_id, content, content_hash, result, supplier_match) ==
    [id |-> doc_id,
     org_id |-> user.org_id,
     outlet_id |-> outlet_id,
     document_date |-> result.document_date,
     extraction_confidence |-> result.extraction_confidence,
     requires_review |-> result.extraction_confidence < ReviewThreshold,
     status |-> IF result.extraction_confidence < ReviewThreshold
                THEN "needs_review" ELSE "processed",
     supplier_id |-> supplier_match.matched_id,
     supplier_match_confidence |-> supplier_match.confidence,
     file_base64 |-> B64Encode(content),
     content_hash |-> content_hash,
     ai_provider_used |-> result.ai_provider_used,
     raw_ocr_text |-> result.raw_ocr_text,
     version_number |-> 1]

\* The document dict assembled by upload_document.
NewDocument(doc_id, user, outlet_id, content, content_hash, result, supplier_match) ==
    [id |-> doc_id,
     org_id |-> user.org_id,
     outlet_id |-> outlet_id,
     document_date |-> result.document_date,
     extraction_confidence |-> result.extraction_confidence,
     requires_review |-> RequiresReview(result),
     status |-> IF RequiresReview(result) THEN "needs_review" ELSE "processed",
     supplier_id |-> supplier_match.matched_id,
     supplier_match_confidence |-> supplier_match.confidence,
     file_base64 |-> B64Encode(content),
     content_hash |-> content_hash,
     ai_provider_used |-> result.ai_provider_used,
     raw_ocr_text |-> result.raw_ocr_text,
     version_number |-> 1]

\* ------------------------------------------------------------------- slots
IdleUpload ==
    [pc |-> "idle", user |-> NoRecord, outlet_id |-> NULL, content |-> NULL,
     file_hash |-> NULL, content_hash |-> NULL, raised |-> FALSE,
     result |-> NoRecord, document |-> NoRecord, response |-> NoRecord]

\* A create-supplier or update-supplier request that has not arrived.
IdleSupplier ==
    [pc |-> "idle", user |-> NoRecord, supplier_id |-> NULL, name |-> NULL,
     gst_id |-> NULL, country |-> NULL, current_country |-> NULL,
     update_dict |-> <<>>, response |-> NoRecord]

\* No get_rate_for_date call, and no pure-function call, in progress.
IdleRate ==
    [pc |-> "idle", currency |-> NULL, date_str |-> NULL, store_reads |-> 0,
     live_calls |-> 0, live |-> NoRecord, response |-> NoRecord]

\* No sync_daily_rates call in progress in the slot.
IdleSync == [pc |-> "idle", today |-> NULL, snapshot |-> NoRecord]
NoCall == [fn |-> "none"]

IdleUpdate ==
    [pc |-> "idle", user |-> NoRecord, doc_id |-> 0, update_dict |-> <<>>,
     current |-> NoRecord, response |-> NoRecord]

\* A request that has returned: its locals are gone, its response is kept.
UpdateDone(response) == [IdleUpdate EXCEPT !.pc = "done", !.response = response]

\* Slots are taken in order: requests are interchangeable.
NextSlot(slots, p) ==
    /\ slots[p].pc = "idle"
    /\ \A o \in DOMAIN slots : o < p => slots[o].pc # "idle"

\* The store and every request slot before the first request.
InitLedger ==
    /\ documents = {}
    /\ document_versions = {}
    /\ notifications = {}
    /\ files = {}
    /\ upl = [p \in UploadSlots |-> IdleUpload]
    /\ upd = [q \in UpdateSlots |-> IdleUpdate]

InitRegistry ==
    /\ suppliers = {}
    /\ sup = [r \in SupplierSlots |-> IdleSupplier]
    /\ exchange_rates = {}
    /\ syn = [s \in SyncSlots |-> IdleSync]
    /\ rq = IdleRate
    /\ call = NoCall

Init == InitLedger /\ InitRegistry

\* ------------------------------------------------------- upload_document
\* The outlet check of upload_document.
MayUpload(user, outlet_id) ==
    user.role \in {"owner", "accounts"} \/ outlet_id \in user.outlet_ids

\* Request received to the return of the duplicate lookup; without a duplicate
\* the bytes are written to disk and the extraction is awaited.
\* uuid4(): the slot number serves as the fresh document id.
UploadCheck(p, user, outlet_id, content, file_hash) ==
    /\ NextSlot(upl, p)
    /\ LET req == [upl[p] EXCEPT !.user = user, !.outlet_id = outlet_id,
                       !.content = content, !.file_hash = file_hash]
           content_hash == ContentHash(file_hash, content)
           dups == FindDuplicates(documents, user.org_id, content_hash, outlet_id)
       IN  IF ~MayUpload(user, outlet_id)
           THEN /\ upl' = [upl EXCEPT ![p] =
                        [req EXCEPT !.pc = "done", !.response = [code |-> 403]]]
                /\ UNCHANGED files
           ELSE IF dups # {}
           THEN /\ \E existing_dup \in dups :
                     upl' = [upl EXCEPT ![p] =
                        [req EXCEPT !.pc = "done", !.content_hash = content_hash,
                             !.response = [code |-> 200, duplicate |-> TRUE,
                                           existing_id |-> existing_dup.id]]]
                /\ UNCHANGED files
           ELSE /\ upl' = [upl EXCEPT ![p] =
                        [req EXCEPT !.pc = "extract", !.content_hash = content_hash]]
                /\ files' = files \cup {p}
    /\ UNCHANGED <<documents, document_versions, notifications, upd, registry>>

\* db.suppliers.find({}) without the org filter.
FindSuppliersAnyOrg(sups, org_id) == sups

\* db.suppliers.find({"org_id": org_id}): the suppliers of one organization.
FindSuppliers(sups, org_id) == {s \in sups : s.org_id = org_id}

\* to_list(): the found records as a list, in the order the store yields them.
Orderings(found) ==
    {list \in [1..Cardinality(found) -> found] :
        \A i, j \in DOMAIN list : i # j => list[i] # list[j]}

\* From the extraction result to the document dict: the review flag, the
\* suppliers of the caller's organization read and matched, the dict assembled.
Assemble(p, result, raised) ==
    LET req == upl[p]
    IN  \E existing_suppliers \in Orderings(FindSuppliers(suppliers, req.user.org_id)) :
          upl' = [upl EXCEPT ![p] =
             [req EXCEPT !.pc = "insert", !.result = result, !.raised = raised,
                  !.document =
                     NewDocument(p, req.user, req.outlet_id, req.content,
                                 req.content_hash, result,
                                 match_supplier(result.supplier_name, result.supplier_gst,
                                                existing_suppliers))]]

\* processor.extract returns a result.
UploadExtract(p, result) ==
    /\ upl[p].pc = "extract"
    /\ Assemble(p, result, FALSE)
    /\ UNCHANGED <<documents, document_versions, notifications, files, upd, registry>>

\* The except branch left out: the exception of processor.extract ends the
\* request with a server error.
UploadExtractAborts(p, result) ==
    /\ upl[p].pc = "extract"
    /\ upl' = [upl EXCEPT ![p] =
          [upl[p] EXCEPT !.pc = "done", !.raised = TRUE, !.response = [code |-> 500]]]
    /\ UNCHANGED <<documents, document_versions, notifications, files, upd, registry>>

\* processor.extract raises: the except branch logs it and takes the result of
\* MockProcessor().extract instead.
UploadExtractRaises(p, result) ==
    /\ upl[p].pc = "extract"
    /\ result \in MockResults
    /\ Assemble(p, result, TRUE)
    /\ UNCHANGED <<documents, document_versions, notifications, files, upd, registry>>

\* The backend of processor.extract never answers: the await has no timeout, so
\* the request stays where it is.
UploadExtractStalls(p) ==
    /\ upl[p].pc = "extract"
    /\ upl' = [upl EXCEPT ![p].pc = "stalled"]
    /\ UNCHANGED <<documents, document_versions, notifications, files, upd, registry>>

\* db.documents.insert_one(document)
UploadInsert(p) ==
    /\ upl[p].pc = "insert"
    /\ documents' = documents \cup {upl[p].document}
    /\ upl' = [upl EXCEPT ![p].pc = "notify"]
    /\ UNCHANGED <<document_versions, notifications, files, upd, registry>>

\* db.documents.insert_one(document) raises: the exception leaves the handler
\* as a server error; nothing removes the file written before.
UploadInsertFails(p) ==
    /\ upl[p].pc = "insert"
    /\ upl' = [upl EXCEPT ![p] =
          [upl[p] EXCEPT !.pc = "done", !.response = [code |-> 500]]]
    /\ UNCHANGED <<documents, document_versions, notifications, files, upd, registry>>

\* db.notifications.insert_one(notif) raises: the exception leaves the handler
\* as a server error; the document inserted before stays.
UploadNotifyFails(p) ==
    /\ upl[p].pc = "notify"
    /\ upl[p].document.requires_review
    /\ upl' = [upl EXCEPT ![p] =
          [upl[p] EXCEPT !.pc = "done", !.response = [code |-> 500]]]
    /\ UNCHANGED <<documents, document_versions, notifications, files, upd, registry>>

\* The low-confidence notification, then the response.
UploadNotify(p) ==
    /\ upl[p].pc = "notify"
    /\ notifications' =
         IF upl[p].document.requires_review
         THEN notifications \cup
                {[type |-> "low_confidence", org_id |-> upl[p].user.org_id,
                  related_id |-> p]}
         ELSE notifications
    /\ upl' = [upl EXCEPT ![p] =
           [upl[p] EXCEPT !.pc = "done",
                !.response = [code |-> 200, duplicate |-> FALSE,
                              document |-> upl[p].document]]]
    /\ UNCHANGED <<documents, document_versions, files, upd, registry>>

\* ------------------------------------------------------- update_document
\* A find_one result under the projection {"file_base64": 0}.
WithoutFields(doc, fields) == [k \in DOMAIN doc \ fields |-> doc[k]]

\* find_one({"id": doc_id}) without the org filter.
FindDocumentAnyOrg(docs, doc_id, org_id) ==
    {d \in docs : d.id = doc_id}

\* find_one({"id": doc_id, "org_id": org_id}): the matching documents.
FindDocument(docs, doc_id, org_id) ==
    {d \in docs : d.id = doc_id /\ d.org_id = org_id}

\* The snapshot a version entry keeps of `current`.
Snapshot(current) == WithoutFields(current, {"file_base64", "raw_ocr_text"})

\* The entry with the version the update writes instead of the version it read.
VersionEntryNextVersion(entry_id, doc_id, user, current, update_dict) ==
    [id |-> entry_id,
     document_id |-> doc_id,
     org_id |-> user.org_id,
     version |-> current.version_number + 1,
     snapshot |-> Snapshot(current),
     changed_fields |-> DOMAIN update_dict,
     changed_by |-> user.id]

\* version_entry, built from the document read and the change set.
\* uuid4(): the slot number serves as the fresh entry id.
VersionEntry(entry_id, doc_id, user, current, update_dict) ==
    [id |-> entry_id,
     document_id |-> doc_id,
     org_id |-> user.org_id,
     version |-> current.version_number,
     snapshot |-> Snapshot(current),
     changed_fields |-> DOMAIN update_dict,
     changed_by |-> user.id]

\* {"$set": fields} on one document.
SetFields(doc, fields) ==
    [k \in DOMAIN doc \cup DOMAIN fields |->
        IF k \in DOMAIN fields THEN fields[k] ELSE doc[k]]

\* The written fields without requires_review forced off.
UpdateSetUnforced(update_dict, version_num) ==
    SetFields(update_dict, [version_number |-> version_num + 1])

\* update_dict as written: the change set, requires_review forced off when the
\* status becomes processed, and the version read plus one.
UpdateSet(update_dict, version_num) ==
    LET forced == IF "status" \in DOMAIN update_dict /\ update_dict["status"] = "processed"
                  THEN SetFields(update_dict, [requires_review |-> FALSE])
                  ELSE update_dict
    IN  SetFields(forced, [version_number |-> version_num + 1])

\* Role check, empty change set, and the read of the current document.
UpdateRead(q, user, doc_id, update_dict) ==
    /\ NextSlot(upd, q)
    /\ LET req == [upd[q] EXCEPT !.user = user, !.doc_id = doc_id,
                       !.update_dict = update_dict]
           found == FindDocument(documents, doc_id, user.org_id)
       IN  IF user.role \notin {"owner", "accounts"}
           THEN upd' = [upd EXCEPT ![q] = UpdateDone([code |-> 403])]
           ELSE IF DOMAIN update_dict = {}
           THEN upd' = [upd EXCEPT ![q] = UpdateDone([code |-> 400])]
           ELSE IF found = {}
           THEN upd' = [upd EXCEPT ![q] = UpdateDone([code |-> 404])]
           ELSE \E current \in found :
                  upd' = [upd EXCEPT ![q] =
                    [req EXCEPT !.pc = "snapshot",
                         !.current = WithoutFields(current, {"file_base64"})]]
    /\ UNCHANGED <<documents, document_versions, notifications, files, upl, registry>>

\* db.document_versions.insert_one(version_entry)
UpdateSnapshot(q) ==
    /\ upd[q].pc = "snapshot"
    /\ document_versions' = document_versions \cup
          {VersionEntry(q, upd[q].doc_id, upd[q].user, upd[q].current,
                        upd[q].update_dict)}
    /\ upd' = [upd EXCEPT ![q].pc = "apply"]
    /\ UNCHANGED <<documents, notifications, files, upl, registry>>

\* db.documents.update_one({"id", "org_id"}, {"$set": update_dict}), then the
\* response: the document as find_one({"id": doc_id}) reads it back, which
\* changes nothing.
UpdateApply(q) ==
    /\ upd[q].pc = "apply"
    /\ LET fields == UpdateSet(upd[q].update_dict, upd[q].current.version_number)
       IN  documents' =
             {IF d \in FindDocument(documents, upd[q].doc_id, upd[q].user.org_id)
              THEN SetFields(d, fields) ELSE d : d \in documents}
    /\ upd' = [upd EXCEPT ![q] = UpdateDone([code |-> 200])]
    /\ UNCHANGED <<document_versions, notifications, files, upl, registry>>

\* -------------------------------------------------- bulk_document_action
\* update_many({"id": {"$in": ids}, "org_id": org_id}, {"$set": fields})
UpdateMany(docs, ids, org_id, fields) ==
    {IF d.id \in ids /\ d.org_id = org_id THEN SetFields(d, fields) ELSE d : d \in docs}

\* delete_many({"id": {"$in": ids}, "org_id": org_id})
DeleteMany(docs, ids, org_id) ==
    {d \in docs : ~(d.id \in ids /\ d.org_id = org_id)}

BulkDocuments(docs, action, ids, org_id) ==
    CASE action = "approve" ->
           UpdateMany(docs, ids, org_id, [status |-> "processed", requires_review |-> FALSE])
      [] action = "delete" -> DeleteMany(docs, ids, org_id)
      [] action = "flag_review" ->
           UpdateMany(docs, ids, org_id, [status |-> "needs_review", requires_review |-> TRUE])
      [] OTHER -> docs

\* The whole handler: one database call.  A request that is refused (403, no
\* ids, unknown action) changes nothing.
BulkAction(user, action, ids) ==
    /\ user.role \in {"owner", "accounts"}
    /\ ids # {}
    /\ documents' = BulkDocuments(documents, action, ids, user.org_id)
    /\ documents' # documents
    /\ UNCHANGED <<document_versions, notifications, files, upl, upd, registry>>

\* ------------------------------------------------------ tax id validation
\* The value of a digit character.
DigitValue(c) == (CHOOSE i \in 1..Len(Digits) : CharAt(Digits, i) = c) - 1

\* re.match(pattern, gst_id): 2 digits, 5 letters, 4 digits, 1 letter, 1 digit
\* or letter, Z, 1 digit or letter, and nothing more.
MatchesGstPattern(gst_id) ==
    /\ Len(gst_id) = 15
    /\ \A i \in 1..2 : InClass(CharAt(gst_id, i), Digits)
    /\ \A i \in 3..7 : InClass(CharAt(gst_id, i), Uppers)
    /\ \A i \in 8..11 : InClass(CharAt(gst_id, i), Digits)
    /\ InClass(CharAt(gst_id, 12), Uppers)
    /\ InClass(CharAt(gst_id, 13), Digits \o Uppers)
    /\ CharAt(gst_id, 14) = "Z"
    /\ InClass(CharAt(gst_id, 15), Digits \o Uppers)

\* int(gst_id[:2])
StateCode(gst_id) == 10 * DigitValue(CharAt(gst_id, 1)) + DigitValue(CharAt(gst_id, 2))

\* validate_indian_gst
validate_indian_gst(gst_id) ==
    LET formatted == Upper(Strip(gst_id))
    IN  IF gst_id = ""
        THEN [valid |-> FALSE, error |-> "required", formatted |-> ""]
        ELSE IF ~MatchesGstPattern(formatted)
        THEN [valid |-> FALSE, error |-> "format", formatted |-> formatted]
        ELSE IF StateCode(formatted) < 1 \/ StateCode(formatted) > 38
        THEN [valid |-> FALSE, error |-> "state_code", formatted |-> formatted]
        ELSE [valid |-> TRUE, error |-> NULL, formatted |-> formatted]

\* validate_international_tax_id
validate_international_tax_id(tax_id, country) ==
    LET formatted == Upper(Strip(tax_id))
    IN  IF tax_id = ""
        THEN [valid |-> TRUE, error |-> NULL, formatted |-> ""]
        ELSE IF Lower(country) \in {"uae", "united arab emirates"}
        THEN IF Len(formatted) = 15
                /\ \A i \in 1..15 : InClass(CharAt(formatted, i), Digits)
             THEN [valid |-> TRUE, error |-> NULL, formatted |-> formatted]
             ELSE [valid |-> FALSE, error |-> "uae_trn", formatted |-> formatted]
        ELSE IF Lower(country) \in {"singapore", "sg"}
        THEN IF Len(formatted) = 10
                /\ \A i \in 1..10 : InClass(CharAt(formatted, i), Digits \o Uppers)
             THEN [valid |-> TRUE, error |-> NULL, formatted |-> formatted]
             ELSE [valid |-> FALSE, error |-> "singapore_gst", formatted |-> formatted]
        ELSE [valid |-> TRUE, error |-> NULL, formatted |-> formatted]

\* The validation create_supplier and update_supplier run for a country.
ValidateTaxId(gst_id, country) ==
    IF Lower(country) = "india"
    THEN validate_indian_gst(gst_id)
    ELSE validate_international_tax_id(gst_id, country)

\* ------------------------------------------ create_supplier, update_supplier
\* str(uuid.uuid4()) in create_supplier: the slot number makes the id fresh.
SupplierId(r) == "supplier-" \o ToString(r)

\* A supplier request that has returned: its response is kept.
SupplierDone(response) == [IdleSupplier EXCEPT !.pc = "done", !.response = response]

\* find({"org_id", "gst_id", "id": {"$ne": except_id}}): the other suppliers of
\* the organization that carry the GST id.
FindByGst(sups, org_id, gst_id, except_id) ==
    {s \in sups : s.org_id = org_id /\ s.gst_id = gst_id /\ s.id # except_id}

\* create_supplier up to the return of the duplicate lookup: role, name and
\* GST id checked, the GST id normalised and looked up in the organization.
CreateSupplierCheck(r, user, name, gst_id, country) ==
    /\ NextSlot(sup, r)
    /\ LET stripped == Strip(name)
           validation == ValidateTaxId(gst_id, country)
           formatted == IF gst_id # "" THEN validation.formatted ELSE gst_id
       IN  sup' = [sup EXCEPT ![r] =
             IF user.role \notin {"owner", "accounts"}
             THEN SupplierDone([code |-> 403])
             ELSE IF Len(stripped) < 2
             THEN SupplierDone([code |-> 400, detail |-> "name"])
             ELSE IF gst_id # "" /\ ~validation.valid
             THEN SupplierDone([code |-> 400, detail |-> validation.error])
             ELSE IF formatted # "" /\ FindByGst(suppliers, user.org_id, formatted, NULL) # {}
             THEN SupplierDone([code |-> 400, detail |-> "gst_exists"])
             ELSE [IdleSupplier EXCEPT !.pc = "insert", !.user = user,
                       !.supplier_id = SupplierId(r),
                       !.name = stripped, !.gst_id = formatted, !.country = country]]
    /\ UNCHANGED <<ledger, suppliers, exchange_rates, syn, rq, call>>

\* db.suppliers.insert_one(supplier), then the response.
CreateSupplierInsert(r) ==
    /\ sup[r].pc = "insert"
    /\ suppliers' = suppliers \cup
          {[id |-> sup[r].supplier_id, org_id |-> sup[r].user.org_id,
            name |-> sup[r].name,
            gst_id |-> sup[r].gst_id, country |-> sup[r].country,
            is_verified |-> sup[r].gst_id # ""]}
    /\ sup' = [sup EXCEPT ![r] = SupplierDone([code |-> 200, supplier_id |-> sup[r].supplier_id])]
    /\ UNCHANGED <<ledger, exchange_rates, syn, rq, call>>

\* update_supplier up to the return of the read of the supplier, and the check
\* of the new name.
UpdateSupplierRead(r, user, supplier_id, name, gst_id, country) ==
    /\ NextSlot(sup, r)
    /\ LET found == {s \in suppliers : s.id = supplier_id /\ s.org_id = user.org_id}
       IN  IF user.role \notin {"owner", "accounts"}
           THEN sup' = [sup EXCEPT ![r] = SupplierDone([code |-> 403])]
           ELSE IF found = {}
           THEN sup' = [sup EXCEPT ![r] = SupplierDone([code |-> 404])]
           ELSE IF name # NULL /\ Len(Strip(name)) < 2
           THEN sup' = [sup EXCEPT ![r] = SupplierDone([code |-> 400, detail |-> "name"])]
           ELSE \E supplier \in found :
                  sup' = [sup EXCEPT ![r] =
                    [IdleSupplier EXCEPT !.pc = "check", !.user = user,
                         !.supplier_id = supplier_id,
                         !.name = IF name # NULL THEN Strip(name) ELSE NULL,
                         !.gst_id = gst_id, !.country = country,
                         !.current_country =
                            IF Truthy(country) THEN country ELSE supplier.country]]
    /\ UNCHANGED <<ledger, suppliers, exchange_rates, syn, rq, call>>

\* update_dict of update_supplier: the fields that were given.
SupplierUpdateDict(name, gst_id, country) ==
    LET with_name == IF name # NULL THEN [name |-> name] ELSE <<>>
        with_gst == IF gst_id # NULL THEN SetFields(with_name, [gst_id |-> gst_id])
                    ELSE with_name
    IN  IF country # NULL THEN SetFields(with_gst, [country |-> country]) ELSE with_gst

\* update_supplier from the read of the supplier to the return of the duplicate
\* lookup: the new GST id validated for the country, normalised and looked up
\* among the other suppliers of the organization.
UpdateSupplierCheck(r) ==
    /\ sup[r].pc = "check"
    /\ LET req == sup[r]
           given == req.gst_id # NULL
           validation == ValidateTaxId(req.gst_id, req.current_country)
           formatted == IF given /\ req.gst_id # "" THEN validation.formatted
                        ELSE req.gst_id
           update_dict == SupplierUpdateDict(req.name, formatted, req.country)
       IN  sup' = [sup EXCEPT ![r] =
             IF given /\ req.gst_id # "" /\ ~validation.valid
             THEN SupplierDone([code |-> 400, detail |-> validation.error])
             ELSE IF given /\ formatted # ""
                     /\ FindByGst(suppliers, req.user.org_id, formatted, req.supplier_id) # {}
             THEN SupplierDone([code |-> 400, detail |-> "gst_exists"])
             ELSE IF DOMAIN update_dict = {}
             THEN SupplierDone([code |-> 400, detail |-> "no_fields"])
             ELSE [req EXCEPT !.pc = "write", !.update_dict = update_dict]]
    /\ UNCHANGED <<ledger, suppliers, exchange_rates, syn, rq, call>>

\* db.suppliers.update_one({"id", "org_id"}, {"$set": update_dict}), then the
\* response.
UpdateSupplierWrite(r) ==
    /\ sup[r].pc = "write"
    /\ suppliers' =
         {IF s.id = sup[r].supplier_id /\ s.org_id = sup[r].user.org_id
          THEN SetFields(s, sup[r].update_dict) ELSE s : s \in suppliers}
    /\ sup' = [sup EXCEPT ![r] =
          SupplierDone([code |-> 200, supplier_id |-> sup[r].supplier_id])]
    /\ UNCHANGED <<ledger, exchange_rates, syn, rq, call>>

\* The requests tried: names that differ, one too short; GST ids that are the
\* same id in two spellings, another id, an id with a bad state code, none.
CreateNames == {"Metro", "Metro Cash ", "M "}
CreateGstIds == {"", "27AABCU9603R1ZM", "27aabcu9603r1zm ", "29AADCB2230M1ZV",
                 "00AABCU9603R1ZM"}
Countries == {"India", "Nepal"}

\* The supplier registry alone: concurrent create and update requests by
\* callers of two organizations.
Registry ==
    \/ \E r \in SupplierSlots, user \in Users, name \in CreateNames,
          gst_id \in CreateGstIds, country \in Countries :
         CreateSupplierCheck(r, user, name, gst_id, country)
    \/ \E r \in SupplierSlots : CreateSupplierInsert(r)
    \/ \E r \in SupplierSlots, user \in Users,
          supplier_id \in {SupplierId(o) : o \in SupplierSlots},
          name \in {NULL, "Metro Cash"}, gst_id \in CreateGstIds \cup {NULL},
          country \in {NULL, "Nepal"} :
         UpdateSupplierRead(r, user, supplier_id, name, gst_id, country)
    \/ \E r \in SupplierSlots : UpdateSupplierCheck(r)
    \/ \E r \in SupplierSlots : UpdateSupplierWrite(r)

SpecRegistry == Init /\ [][Registry]_vars

\* --------------------------------------------------------- currency_engine
\* Rates are kept in hundredths (83.50 is 8350) and a computed rate in
\* ten-thousandths (round(rate, 4): 1.0 is 10000).
DefaultUsdToInr == 8350
UnitRate == 10000

\* round(n / d), halves up.
RoundDiv(n, d) == (2 * n + d) \div (2 * d)

\* round(usd_to_inr / usd_to_currency, 4), usd_to_inr being rates.get("INR", 83.50)
CrossRate(rates, currency) ==
    LET usd_to_inr == IF "INR" \in DOMAIN rates THEN rates["INR"] ELSE DefaultUsdToInr
    IN  RoundDiv(usd_to_inr * UnitRate, rates[currency])

\* The fallback table of fetch_live_rates (the currencies the model uses).
FallbackRates == [USD |-> 100, INR |-> 8350, AED |-> 367]

\* What fetch_live_rates can return: the source's answer (the supported
\* currencies it lists), or the fallback table when the request failed.
FetchLiveRates ==
    { [rates |-> FallbackRates, is_fallback |-> TRUE],
      [rates |-> [USD |-> 100, INR |-> 8300], is_fallback |-> FALSE],
      [rates |-> [USD |-> 100, INR |-> 8300, AED |-> 366], is_fallback |-> FALSE] }

\* a <= b for two dates written YYYY-MM-DD: the order of the texts.
CharRank(c) == CHOOSE i \in 1..Len("-" \o Digits) : CharAt("-" \o Digits, i) = c

RECURSIVE TextLeq(_, _)
TextLeq(a, b) ==
    IF a = "" THEN TRUE
    ELSE IF b = "" THEN FALSE
    ELSE IF CharAt(a, 1) # CharAt(b, 1) THEN CharRank(CharAt(a, 1)) < CharRank(CharAt(b, 1))
    ELSE TextLeq(SubSeq(a, 2, Len(a)), SubSeq(b, 2, Len(b)))

\* sync_daily_rates up to its write: the live rates as the snapshot of today.
SyncFetch(s, today, rates_data) ==
    /\ NextSlot(syn, s)
    /\ syn' = [syn EXCEPT ![s] =
                 [pc |-> "upsert", today |-> today,
                  snapshot |-> [date |-> today, rates |-> rates_data.rates,
                                is_fallback |-> rates_data.is_fallback]]]
    /\ UNCHANGED <<ledger, suppliers, sup, exchange_rates, rq, call>>

\* update_one({"date": today}, {"$set": snapshot}, upsert=True), its query: a
\* snapshot of today is overwritten, and without one the upsert goes on to
\* insert. The collection has no unique index on date, so the store does not
\* serialise the upserts of one date.
SyncUpsert(s) ==
    /\ syn[s].pc = "upsert"
    /\ LET found == {x \in exchange_rates : x.date = syn[s].today}
       IN  \/ /\ found = {}
              /\ syn' = [syn EXCEPT ![s].pc = "insert"]
              /\ UNCHANGED exchange_rates
           \/ \E x \in found :
                /\ exchange_rates' =
                     (exchange_rates \ {x}) \cup {[id |-> x.id] @@ syn[s].snapshot}
                /\ syn' = [syn EXCEPT ![s].pc = "done"]
    /\ UNCHANGED <<ledger, suppliers, sup, rq, call>>

\* The insert of an upsert that matched nothing (the new document's _id is its own).
SyncInsert(s) ==
    /\ syn[s].pc = "insert"
    /\ exchange_rates' = exchange_rates \cup {[id |-> s] @@ syn[s].snapshot}
    /\ syn' = [syn EXCEPT ![s].pc = "done"]
    /\ UNCHANGED <<ledger, suppliers, sup, rq, call>>

\* A get_rate_for_date call that has returned.
RateDone(req, rate, source, date) ==
    [req EXCEPT !.pc = "done",
         !.response = [rate |-> rate, source |-> source, date |-> date]]

\* get_rate_for_date without the branch for the base currency.
GetRateNoBase(currency, date_str) ==
    /\ rq.pc = "idle"
    /\ rq' = [rq EXCEPT !.pc = "exact", !.currency = currency, !.date_str = date_str]
    /\ UNCHANGED <<ledger, suppliers, sup, exchange_rates, syn, call>>

\* get_rate_for_date up to its first await: INR is answered at once.
GetRate(currency, date_str) ==
    /\ rq.pc = "idle"
    /\ LET req == [rq EXCEPT !.currency = currency, !.date_str = date_str]
       IN  rq' = IF currency = "INR"
                 THEN RateDone(req, UnitRate, "base_currency", date_str)
                 ELSE [req EXCEPT !.pc = "exact"]
    /\ UNCHANGED <<ledger, suppliers, sup, exchange_rates, syn, call>>

\* find_one({"date": date_str}): the snapshot of the date itself.
GetRateExact ==
    /\ rq.pc = "exact"
    /\ LET found == {x \in exchange_rates : x.date = rq.date_str}
           req == [rq EXCEPT !.store_reads = @ + 1]
       IN  \/ /\ found = {}
              /\ rq' = [req EXCEPT !.pc = "nearest"]
           \/ \E snapshot \in found :
                rq' = IF rq.currency \in DOMAIN snapshot.rates
                      THEN RateDone(req, CrossRate(snapshot.rates, rq.currency),
                                    "historical_snapshot", rq.date_str)
                      ELSE [req EXCEPT !.pc = "nearest"]
    /\ UNCHANGED <<ledger, suppliers, sup, exchange_rates, syn, call>>

\* The nearest lookup without its $lte filter: the latest snapshot of all.
GetRateNearestAnyDate ==
    /\ rq.pc = "nearest"
    /\ LET found == {x \in exchange_rates : \A y \in exchange_rates : TextLeq(y.date, x.date)}
           req == [rq EXCEPT !.store_reads = @ + 1]
       IN  \/ /\ found = {}
              /\ rq' = [req EXCEPT !.pc = "live"]
           \/ \E snapshot \in found :
                rq' = IF rq.currency \in DOMAIN snapshot.rates
                      THEN RateDone(req, CrossRate(snapshot.rates, rq.currency),
                                    "nearest_snapshot", snapshot.date)
                      ELSE [req EXCEPT !.pc = "live"]
    /\ UNCHANGED <<ledger, suppliers, sup, exchange_rates, syn, call>>

\* find_one({"date": {"$lte": date_str}}, sort=[("date", -1)]): the latest
\* snapshot not after the date.
GetRateNearest ==
    /\ rq.pc = "nearest"
    /\ LET earlier == {x \in exchange_rates : TextLeq(x.date, rq.date_str)}
           found == {x \in earlier : \A y \in earlier : TextLeq(y.date, x.date)}
           req == [rq EXCEPT !.store_reads = @ + 1]
       IN  \/ /\ found = {}
              /\ rq' = [req EXCEPT !.pc = "live"]
           \/ \E snapshot \in found :
                rq' = IF rq.currency \in DOMAIN snapshot.rates
                      THEN RateDone(req, CrossRate(snapshot.rates, rq.currency),
                                    "nearest_snapshot", snapshot.date)
                      ELSE [req EXCEPT !.pc = "live"]
    /\ UNCHANGED <<ledger, suppliers, sup, exchange_rates, syn, call>>

\* fetch_live_rates("USD") as the last resort, then the fixed fallback rate.
GetRateLive(live) ==
    /\ rq.pc = "live"
    /\ LET req == [rq EXCEPT !.live_calls = @ + 1, !.live = live]
       IN  rq' = IF rq.currency \in DOMAIN live.rates
                 THEN RateDone(req, CrossRate(live.rates, rq.currency), "live_fetch",
                               rq.date_str)
                 ELSE RateDone(req, UnitRate, "fallback", rq.date_str)
    /\ UNCHANGED <<ledger, suppliers, sup, exchange_rates, syn, call>>

\* The currencies and dates asked for, and the days the rates are synced.
Currencies == {"INR", "USD", "AED", "JPY"}
RateDates == {"2024-02-29", "2024-03-01", "2024-03-02"}
SyncDates == {"2024-02-29", "2024-03-02"}

\* One rate lookup against a snapshot store that the daily sync fills.
Rates ==
    \/ \E s \in SyncSlots, today \in SyncDates, rates_data \in FetchLiveRates :
         SyncFetch(s, today, rates_data)
    \/ \E s \in SyncSlots : SyncUpsert(s)
    \/ \E s \in SyncSlots : SyncInsert(s)
    \/ \E currency \in Currencies, date_str \in RateDates : GetRate(currency, date_str)
    \/ GetRateExact
    \/ GetRateNearest
    \/ \E live \in FetchLiveRates : GetRateLive(live)

SpecRates == Init /\ [][Rates]_vars

\* ---------------------------------------------------------- specifications
\* The change sets of DocumentUpdate tried (fields left None are absent).
ChangeSets ==
    { <<>>,
      [status |-> "processed"],
      [status |-> "needs_review"],
      [document_date |-> "2024-03-02"],
      [document_date |-> "2024-03-02", status |-> "processed"] }

BulkActions == {"approve", "delete", "flag_review"}

\* The file_hash form field: absent, or a digest the caller chose.
FileHashes == {NULL, Sha256("bytesB")}

OrgUsers(org_id) == {u \in Users : u.org_id = org_id}

\* The results tried: nothing wrong, or exactly one thing wrong (no date, a low
\* extraction confidence, a low date confidence).
FaultCount(r) ==
    (IF r.document_date = NULL THEN 1 ELSE 0)
    + (IF r.extraction_confidence < ReviewThreshold THEN 1 ELSE 0)
    + (IF r.document_date_confidence < ReviewThreshold THEN 1 ELSE 0)

TriedResults ==
    {r \in ExtractionResults :
        /\ FaultCount(r) <= 1
        /\ r.supplier_name = "" /\ r.supplier_gst = ""
        /\ r.ai_provider_used = "gpt4o"}

\* Intake alone: concurrent uploads by callers of two organizations, of two byte
\* strings, with and without a file_hash.
Ingest ==
    \/ \E p \in UploadSlots, user \in Users, outlet_id \in Outlets,
          content \in Contents, file_hash \in FileHashes :
         UploadCheck(p, user, outlet_id, content, file_hash)
    \/ \E p \in UploadSlots, result \in TriedResults : UploadExtract(p, result)
    \/ \E p \in UploadSlots : UploadInsert(p)
    \/ \E p \in UploadSlots : UploadNotify(p)

SpecIngest == Init /\ [][Ingest]_vars

\* The results of the fallback tried: the date confidence high or low.
TriedMockResults ==
    {r \in MockResults : r.supplier_name = "Sysco" /\ r.supplier_gst = "27AABCU9603R1ZM"}

\* The extraction of upload p comes back, with a result or with an exception.
ExtractReturns(p) ==
    \/ \E result \in TriedResults : UploadExtract(p, result)
    \/ \E result \in TriedMockResults : UploadExtractRaises(p, result)

\* Intake with an extraction backend that may raise or never answer.
Extraction ==
    \/ \E p \in UploadSlots, user \in OrgUsers("org1"), outlet_id \in Outlets,
          content \in Contents :
         UploadCheck(p, user, outlet_id, content, NULL)
    \/ \E p \in UploadSlots, result \in TriedResults : UploadExtract(p, result)
    \/ \E p \in UploadSlots, result \in TriedMockResults : UploadExtractRaises(p, result)
    \/ \E p \in UploadSlots : UploadExtractStalls(p)
    \/ \E p \in UploadSlots : UploadInsert(p)
    \/ \E p \in UploadSlots : UploadNotify(p)

\* Where each upload stands; every step of an upload changes it.
position == [p \in UploadSlots |-> upl[p].pc]

\* The event loop resumes every coroutine whose awaited call has completed.
SpecExtraction ==
    /\ Init /\ [][Extraction]_vars
    /\ \A p \in UploadSlots :
          /\ WF_position(ExtractReturns(p))
          /\ WF_position(UploadInsert(p))
          /\ WF_position(UploadNotify(p))

\* The life of the documents of one organization: intake, concurrent updates by
\* callers of either organization, and bulk actions.
Next ==
    \/ \E p \in 1..MaxDocs, user \in OrgUsers("org1"), outlet_id \in Outlets :
         UploadCheck(p, user, outlet_id, "bytesA", NULL)
    \/ \E p \in UploadSlots, result \in TriedResults : UploadExtract(p, result)
    \/ \E p \in UploadSlots : UploadInsert(p)
    \/ \E p \in UploadSlots : UploadNotify(p)
    \/ \E q \in UpdateSlots, user \in Users, doc_id \in 1..MaxDocs,
          update_dict \in ChangeSets :
         UpdateRead(q, user, doc_id, update_dict)
    \/ \E q \in UpdateSlots : UpdateSnapshot(q)
    \/ \E q \in UpdateSlots : UpdateApply(q)
    \/ \E user \in Users, action \in BulkActions, ids \in SUBSET (1..MaxDocs) :
         BulkAction(user, action, ids)

Spec == Init /\ [][Next]_vars

\* ------------------------------------------------------------------ claims
\* The review condition as the specification words it, on plain values.
ReviewCondition(document_date, extraction_confidence, document_date_confidence) ==
    \/ document_date = NULL
    \/ extraction_confidence < 60
    \/ document_date_confidence < 60

\* The upload in slot p has just been received by this step.
Received(p) == upl[p].pc = "idle" /\ upl'[p].pc # "idle"

\* The uploads that returned a new document before this step, for the same
\* (org, outlet) and with the same bytes as the upload p receives in this step.
EarlierSameUploads(p) ==
    {o \in UploadSlots \ {p} :
        /\ upl[o].pc = "done"
        /\ upl[o].response.code = 200
        /\ ~upl[o].response.duplicate
        /\ upl[o].user.org_id = upl'[p].user.org_id
        /\ upl[o].outlet_id = upl'[p].outlet_id
        /\ upl[o].content = upl'[p].content}

\* C1: an upload whose bytes are those of an earlier successful upload to the
\* same (org, outlet) returns duplicate=true with the first document's id and
\* changes nothing: no document, no file, no extraction, no notification.
C1_DuplicateUploadIdempotent ==
    [][\A p \in UploadSlots :
         Received(p) /\ MayUpload(upl'[p].user, upl'[p].outlet_id) =>
           \A o \in EarlierSameUploads(p) :
              /\ upl'[p].pc = "done"
              /\ upl'[p].response =
                   [code |-> 200, duplicate |-> TRUE, existing_id |-> o]
              /\ UNCHANGED <<documents, files, notifications, document_versions>>]_vars

\* C2: the store never holds two documents with the same
\* (org_id, outlet_id, content_hash), whatever the interleaving of uploads.
C2_OneDocumentPerFingerprint ==
    \A d1 \in documents, d2 \in documents :
        (/\ d1.org_id = d2.org_id
         /\ d1.outlet_id = d2.outlet_id
         /\ d1.content_hash = d2.content_hash) => d1 = d2

\* C3: the document an upload persists has requires_review true and status
\* needs_review exactly when its extraction result has no date, or an extraction
\* confidence below 0.6, or a date confidence below 0.6; otherwise its status is
\* processed (0.6 itself does not trigger review).
C3_ReviewFlagAtPersist ==
    [][\A p \in UploadSlots :
         upl[p].pc = "insert" /\ upl'[p].pc = "notify" =>
           \E d \in documents' \ documents :
              LET r == upl[p].result
                  review == ReviewCondition(r.document_date, r.extraction_confidence,
                                            r.document_date_confidence)
              IN  /\ d.id = p
                  /\ d.requires_review = review
                  /\ d.status = IF review THEN "needs_review" ELSE "processed"]_vars

\* C3 witness: a document persisted as processed from a result whose two
\* confidences are exactly 0.6, and one persisted for review for each cause.
C3_Witness ==
    \E p \in UploadSlots, o \in UploadSlots :
        /\ upl[p].pc = "notify" /\ upl[p].document \in documents
        /\ upl[p].result.extraction_confidence = 60
        /\ upl[p].result.document_date_confidence = 60
        /\ upl[p].document.status = "processed"
        /\ upl[o].pc = "notify" /\ upl[o].document \in documents
        /\ upl[o].result.document_date_confidence = 59
        /\ upl[o].document.status = "needs_review"

\* The date confidence of the extraction a document came from (the store does
\* not keep it; the upload that created the document does).
DateConfidenceOf(d) == upl[d.id].result.document_date_confidence

\* The review condition on a stored document.
NeedsReviewByContent(d) ==
    ReviewCondition(d.document_date, d.extraction_confidence, DateConfidenceOf(d))

\* The document is as its upload persisted it.
AsIngested(d) == d = upl[d.id].document

\* C4 as claimed: in every reachable state every document has (no date, or an
\* extraction confidence below 0.6, or a date confidence below 0.6) if and only
\* if its status is needs_review.
C4_ReviewIffNeedsReview ==
    \A d \in documents : NeedsReviewByContent(d) <=> d.status = "needs_review"

\* C4 amended: the equivalence holds of every document that no updateDocument
\* and no bulk action has changed since its upload persisted it.
C4_ReviewIffNeedsReviewAsIngested ==
    \A d \in documents :
        AsIngested(d) => (NeedsReviewByContent(d) <=> d.status = "needs_review")

\* C4 witness: after an update of it was refused, an untouched document is
\* processed with both confidences at exactly 0.6.
C4_Witness ==
    \E d \in documents, q \in UpdateSlots :
        /\ AsIngested(d) /\ d.status = "processed"
        /\ d.extraction_confidence = 60 /\ DateConfidenceOf(d) = 60
        /\ upd[q].pc = "done" /\ upd[q].response.code = 404

\* The update in slot q writes the document in this step.
Applies(q) == upd[q].pc = "apply" /\ upd'[q].pc = "done"

\* No other writer on q's document: no other update of it is between its read
\* and its write, and the document is still as q read it.
NoConcurrentWriter(q) ==
    /\ \A o \in UpdateSlots \ {q} :
          ~(upd[o].pc \in {"snapshot", "apply"} /\ upd[o].doc_id = upd[q].doc_id)
    /\ \E d \in FindDocument(documents, upd[q].doc_id, upd[q].user.org_id) :
          WithoutFields(d, {"file_base64"}) = upd[q].current

\* What the update in slot q leaves when it writes: the version one higher, and
\* one entry of its own, holding the version before, the fields of the change
\* set and a snapshot of the document before the write, less the fields `omitted`.
LedgeredUpdate(q, omitted) ==
    \A d \in FindDocument(documents, upd[q].doc_id, upd[q].user.org_id) :
        /\ \E d2 \in documents' :
              d2.id = d.id /\ d2.version_number = d.version_number + 1
        /\ document_versions' = document_versions
        /\ Cardinality({e \in document_versions : e.id = q}) = 1
        /\ \A e \in document_versions :
              e.id = q =>
                /\ e.document_id = d.id
                /\ e.version = d.version_number
                /\ e.changed_fields = DOMAIN upd[q].update_dict
                /\ e.snapshot = WithoutFields(d, omitted)

\* C5 as claimed: an update with no concurrent writer raises version_number by
\* one and leaves exactly one new entry, with the version before, the fields of
\* the change set, and a snapshot equal to the full state before the update.
C5_UpdateLedgeredFullSnapshot ==
    [][\A q \in UpdateSlots :
         Applies(q) /\ NoConcurrentWriter(q) => LedgeredUpdate(q, {})]_vars

\* C5 amended: the same, with a snapshot equal to the state before the update
\* without its file_base64 and raw_ocr_text fields, which the entry leaves out.
C5_UpdateLedgeredSnapshot ==
    [][\A q \in UpdateSlots :
         Applies(q) /\ NoConcurrentWriter(q) =>
           LedgeredUpdate(q, {"file_base64", "raw_ocr_text"})]_vars

\* The ledger entries of a document.
EntriesOf(d) == {e \in document_versions : e.document_id = d.id}

\* C5 witness: one update of two fields has run alone on a document: version 2,
\* one entry of version 1, nothing in flight.
C5_Witness ==
    \E d \in documents :
        /\ d.version_number = 2
        /\ \A q \in UpdateSlots : upd[q].pc \in {"idle", "done"}
        /\ Cardinality(EntriesOf(d)) = 1
        /\ \A e \in EntriesOf(d) :
              e.version = 1 /\ e.changed_fields = {"document_date", "status"}

\* C6: an update that read a version number the document no longer has when it
\* writes (another update was applied in between) is refused as a conflict and
\* writes nothing.
C6_StaleUpdateRefused ==
    [][\A q \in UpdateSlots :
         Applies(q) =>
           \A d \in FindDocument(documents, upd[q].doc_id, upd[q].user.org_id) :
              d.version_number # upd[q].current.version_number =>
                 documents' = documents /\ upd'[q].response.code = 409]_vars

\* C7: the entries of a document carry pairwise distinct versions covering
\* exactly 1 .. version_number - 1.  (Read with an exemption the claim does not
\* make: a document one of whose updates has written its entry and not yet the
\* document is left out, so that a violation is the loss of a transition.)
C7_LedgerCoversVersions ==
    \A d \in documents :
        (\A q \in UpdateSlots : ~(upd[q].pc = "apply" /\ upd[q].doc_id = d.id)) =>
            /\ {e.version : e \in EntriesOf(d)} = 1..(d.version_number - 1)
            /\ Cardinality(EntriesOf(d)) = d.version_number - 1

\* C8: the version_number of a document never decreases from one state to the next.
C8_VersionNeverDecreases ==
    [][\A d \in documents : \A d2 \in documents' :
         d2.id = d.id => d2.version_number >= d.version_number]_vars

\* C9: whenever a field of a stored document changes, its version_number goes up
\* by one and an entry of the version before is already in the ledger.
C9_EveryChangeLedgered ==
    [][\A d \in documents : \A d2 \in documents' :
         (d2.id = d.id /\ d2 # d) =>
            /\ d2.version_number = d.version_number + 1
            /\ \E e \in EntriesOf(d) : e.version = d.version_number]_vars

\* C10: when an update whose change set has status = processed writes, the
\* document has status processed and requires_review false, whatever
\* requires_review was.
C10_ProcessedClearsReview ==
    [][\A q \in UpdateSlots :
         (/\ Applies(q)
          /\ "status" \in DOMAIN upd[q].update_dict
          /\ upd[q].update_dict["status"] = "processed") =>
            \A d2 \in documents' :
               d2.id = upd[q].doc_id =>
                  d2.status = "processed" /\ d2.requires_review = FALSE]_vars

\* C10 witness: a document ingested for review, updated once with a change set
\* of date and status = processed, now processed and not for review.
C10_Witness ==
    \E d \in documents :
        /\ upl[d.id].document.requires_review
        /\ d.version_number = 2
        /\ d.status = "processed" /\ ~d.requires_review
        /\ \E e \in EntriesOf(d) :
              /\ e.changed_fields = {"document_date", "status"}
              /\ e.snapshot.requires_review

\* Intake with a database whose inserts may fail.
Storage ==
    \/ \E p \in UploadSlots, user \in OrgUsers("org1"), outlet_id \in Outlets,
          content \in Contents :
         UploadCheck(p, user, outlet_id, content, NULL)
    \/ \E p \in UploadSlots, result \in TriedResults : UploadExtract(p, result)
    \/ \E p \in UploadSlots : UploadInsert(p)
    \/ \E p \in UploadSlots : UploadInsertFails(p)
    \/ \E p \in UploadSlots : UploadNotify(p)
    \/ \E p \in UploadSlots : UploadNotifyFails(p)

SpecStorage == Init /\ [][Storage]_vars

\* The results tried for supplier resolution: nothing wrong with the date or
\* the confidences, every extracted name and GST id.
ResolvedResults ==
    {r \in ExtractionResults : FaultCount(r) = 0 /\ r.ai_provider_used = "gpt4o"}

Owners == {u \in Users : u.role = "owner"}

\* Supplier resolution at intake: the owners of two organizations create
\* suppliers under the same names and GST ids, and upload documents.
Resolution ==
    \/ \E r \in SupplierSlots, user \in Owners, name \in SupplierNames,
          gst_id \in TaxIds :
         CreateSupplierCheck(r, user, name, gst_id, "India")
    \/ \E r \in SupplierSlots : CreateSupplierInsert(r)
    \/ \E p \in 1..MaxDocs, user \in Owners, outlet_id \in Outlets :
         UploadCheck(p, user, outlet_id, "bytesA", NULL)
    \/ \E p \in UploadSlots, result \in ResolvedResults : UploadExtract(p, result)
    \/ \E p \in UploadSlots : UploadInsert(p)
    \/ \E p \in UploadSlots : UploadNotify(p)

SpecResolution == Init /\ [][Resolution]_vars

\* The change sets that name a supplier: the id of each supplier the requests
\* can create, and an id no supplier has.
SupplierChangeSets ==
    {[supplier_id |-> SupplierId(r)] : r \in SupplierSlots}
    \cup {[supplier_id |-> "supplier-unknown"]}

\* Documents and the suppliers they refer to: the owners of two organizations
\* create suppliers, one of them uploads, and either sets the supplier of the
\* document.
Linking ==
    \/ \E r \in SupplierSlots, user \in Owners :
         CreateSupplierCheck(r, user, "Metro Cash", "27AABCU9603R1ZM", "India")
    \/ \E r \in SupplierSlots : CreateSupplierInsert(r)
    \/ \E p \in 1..MaxDocs, user \in OrgUsers("org1"), outlet_id \in Outlets :
         UploadCheck(p, user, outlet_id, "bytesA", NULL)
    \/ \E p \in UploadSlots, result \in TriedMockResults : UploadExtract(p, result)
    \/ \E p \in UploadSlots : UploadInsert(p)
    \/ \E p \in UploadSlots : UploadNotify(p)
    \/ \E q \in 1..MaxEdits, user \in OrgUsers("org1"), doc_id \in 1..MaxDocs,
          update_dict \in SupplierChangeSets :
         UpdateRead(q, user, doc_id, update_dict)
    \/ \E q \in UpdateSlots : UpdateSnapshot(q)
    \/ \E q \in UpdateSlots : UpdateApply(q)

SpecLinking == Init /\ [][Linking]_vars

\* Updates alone: the owners of two organizations upload a document each, and
\* callers of either organization update either document.
Editing ==
    \/ \E p \in UploadSlots, user \in Owners, outlet_id \in Outlets :
         UploadCheck(p, user, outlet_id, "bytesA", NULL)
    \/ \E p \in UploadSlots, result \in TriedMockResults : UploadExtract(p, result)
    \/ \E p \in UploadSlots : UploadInsert(p)
    \/ \E p \in UploadSlots : UploadNotify(p)
    \/ \E q \in 1..MaxEdits, user \in Users, doc_id \in UploadSlots,
          update_dict \in ChangeSets :
         UpdateRead(q, user, doc_id, update_dict)
    \/ \E q \in UpdateSlots : UpdateSnapshot(q)
    \/ \E q \in UpdateSlots : UpdateApply(q)

SpecEditing == Init /\ [][Editing]_vars

\* The known suppliers tried: up to MaxKnown of them, in every order, under
\* names that match exactly, in part or not at all, with and without GST ids.
KnownSuppliers ==
    [id : {SupplierId(i) : i \in 1..MaxKnown},
     name : {"Metro", "Metro Cash", "Sysco"},
     gst_id : TaxIds \cup {""}]

SupplierLists ==
    UNION {{list \in [1..n -> KnownSuppliers] : \A i \in 1..n : list[i].id = SupplierId(i)}
           : n \in 0..MaxKnown}

MatchNames == {"", "metro cash", "Metro ", "Sysco"}

\* A call of match_supplier on extracted values and a list of suppliers.
MatchCalls ==
    [fn : {"match_supplier"}, supplier_name : MatchNames,
     supplier_gst : TaxIds \cup {""}, existing_suppliers : SupplierLists,
     result : {NoRecord}]

InitMatch ==
    /\ InitLedger
    /\ suppliers = {} /\ sup = [r \in SupplierSlots |-> IdleSupplier]
    /\ exchange_rates = {} /\ syn = [s \in SyncSlots |-> IdleSync] /\ rq = IdleRate
    /\ call \in MatchCalls

\* The call returns.
MatchSupplier ==
    /\ call.fn = "match_supplier" /\ call.result = NoRecord
    /\ call' = [call EXCEPT !.result =
                   match_supplier(call.supplier_name, call.supplier_gst,
                                  call.existing_suppliers)]
    /\ UNCHANGED <<ledger, suppliers, sup, exchange_rates, syn, rq>>

SpecMatch == InitMatch /\ [][MatchSupplier]_vars

\* The call of match_supplier has returned.
Matched == call.fn = "match_supplier" /\ call.result # NoRecord

\* The ids of the known suppliers of the call that carry the extracted GST id,
\* and of those whose name is the extracted name but for the case.
WithTaxId == {s.id : s \in {call.existing_suppliers[i] : i \in GstHits(call.supplier_gst, call.existing_suppliers)}}
WithName ==
    {call.existing_suppliers[i].id : i \in
        {i \in DOMAIN call.existing_suppliers :
            Lower(call.existing_suppliers[i].name) = Lower(call.supplier_name)}}

\* C16 as stated: an extracted GST id that is not empty and is carried by a
\* known supplier gives that supplier, confidence 0.98, method tax_id_match,
\* whatever the extracted name matches.
C16_TaxIdMatchFirst ==
    (Matched /\ call.supplier_gst # "" /\ WithTaxId # {}) =>
        /\ call.result.matched_id \in WithTaxId
        /\ call.result.confidence = 98
        /\ call.result.method = "tax_id_match"

\* C16 amended: the same, with the method named gst_match.
C16_GstMatchFirst ==
    (Matched /\ call.supplier_gst # "" /\ WithTaxId # {}) =>
        /\ call.result.matched_id \in WithTaxId
        /\ call.result.confidence = 98
        /\ call.result.method = "gst_match"

\* C16 witness: the GST id is carried by the second supplier of the list while
\* the first one has the extracted name: the second is returned.
C16_Witness ==
    /\ Matched /\ Len(call.existing_suppliers) = 2
    /\ call.existing_suppliers[1].id \in WithName \ WithTaxId
    /\ call.existing_suppliers[2].id \in WithTaxId
    /\ call.result.matched_id = call.existing_suppliers[2].id
    /\ call.result.method = "gst_match"

\* C17: when no known supplier carries the extracted GST id and one has the
\* extracted name but for the case, the result is that supplier, confidence
\* 0.95, method exact_name, wherever it stands in the list.
C17_ExactNameBeforePartial ==
    (Matched /\ WithTaxId = {} /\ WithName # {}) =>
        /\ call.result.matched_id \in WithName
        /\ call.result.confidence = 95
        /\ call.result.method = "exact_name"

\* The GST ids tried: every state code at and around the limits, before a
\* well-formed rest, a rest in lowercase, too short, too long, and with a wrong
\* character at one place; with and without a leading blank; no state code;
\* something else; nothing.
StateCodes == {"00", "01", "27", "38", "39"}
GstRests == {"AABCU9603R1ZM", "aabcu9603r1zm", "AABCU9603R1Z", "AABCU9603R1ZMX",
             "AABCU9603R1YM", "AABC19603R1ZM", "AABCU9603RAZM", "AABCU9603R1Z5"}
GstInputs ==
    {pad \o code \o rest : pad \in {"", " "}, code \in StateCodes, rest \in GstRests}
    \cup {"", "AABCU9603R1ZM", "INVALID123"}

InitGst ==
    /\ InitLedger
    /\ suppliers = {} /\ sup = [r \in SupplierSlots |-> IdleSupplier]
    /\ exchange_rates = {} /\ syn = [s \in SyncSlots |-> IdleSync] /\ rq = IdleRate
    /\ call \in [fn : {"validate_indian_gst"}, gst_id : GstInputs, result : {NoRecord}]

\* The call returns.
ValidateGst ==
    /\ call.fn = "validate_indian_gst" /\ call.result = NoRecord
    /\ call' = [call EXCEPT !.result = validate_indian_gst(call.gst_id)]
    /\ UNCHANGED <<ledger, suppliers, sup, exchange_rates, syn, rq>>

SpecGst == InitGst /\ [][ValidateGst]_vars

\* ------------------------------------------------------ GPT4oProcessor.extract
\* What _parse_response makes of an answer of the model: the fields read off
\* valid JSON, or the result for an answer that is not JSON.
ParseFailureConfidence == 20
ParseResponse ==
    {[error |-> NULL] @@ r : r \in {x \in ExtractionResults :
                                      x.ai_provider_used = "gpt4o" /\ x.supplier_gst = ""}}
    \cup {[error |-> "JSON parse failure", raw_ocr_text |-> "ocr",
           extraction_confidence |-> ParseFailureConfidence, ai_provider_used |-> "gpt4o"]}

\* One call of extract on a processor built with max_retries, with or without
\* an API key; attempts counts the requests sent to the model.
InitRetry ==
    /\ InitLedger
    /\ suppliers = {} /\ sup = [r \in SupplierSlots |-> IdleSupplier]
    /\ exchange_rates = {} /\ syn = [s \in SyncSlots |-> IdleSync] /\ rq = IdleRate
    /\ call \in [fn : {"extract"}, pc : {"start"}, max_retries : 0..MaxRetries,
                  api_key : {"", "key"}, attempt : {0}, attempts : {0},
                  result : {NoRecord}]

\* extract up to its first request: without an API key it returns an error result.
ExtractStart ==
    /\ call.fn = "extract" /\ call.pc = "start"
    /\ call' = IF call.api_key = ""
               THEN [call EXCEPT !.pc = "done",
                         !.result = [error |-> "API key not configured",
                                     ai_provider_used |-> "gpt4o", retries_used |-> 0]]
               ELSE [call EXCEPT !.pc = "send"]
    /\ UNCHANGED <<ledger, suppliers, sup, exchange_rates, syn, rq>>

\* retries_used of the error result returned when the last attempt has failed.
RetriesUsedAllFailed(attempt) == attempt + 1

\* An attempt gets its answer: the parsed result is returned with retries_used
\* set to the index of the attempt.
ExtractAttemptReturns(parsed) ==
    /\ call.fn = "extract" /\ call.pc = "send"
    /\ call' = [call EXCEPT !.pc = "done", !.attempts = @ + 1,
                    !.result = [retries_used |-> call.attempt] @@ parsed]
    /\ UNCHANGED <<ledger, suppliers, sup, exchange_rates, syn, rq>>

\* An attempt raises: the last one returns an error result, any other sleeps.
ExtractAttemptRaises ==
    /\ call.fn = "extract" /\ call.pc = "send"
    /\ call' = IF call.attempt = call.max_retries
               THEN [call EXCEPT !.pc = "done", !.attempts = @ + 1,
                         !.result = [error |-> "All attempts failed",
                                     ai_provider_used |-> "gpt4o",
                                     retries_used |-> RetriesUsedAllFailed(call.attempt)]]
               ELSE [call EXCEPT !.pc = "sleep", !.attempts = @ + 1]
    /\ UNCHANGED <<ledger, suppliers, sup, exchange_rates, syn, rq>>

\* asyncio.sleep(1) is over: the next attempt.
ExtractRetry ==
    /\ call.fn = "extract" /\ call.pc = "sleep"
    /\ call' = [call EXCEPT !.pc = "send", !.attempt = @ + 1]
    /\ UNCHANGED <<ledger, suppliers, sup, exchange_rates, syn, rq>>

Retry ==
    \/ ExtractStart
    \/ \E parsed \in ParseResponse : ExtractAttemptReturns(parsed)
    \/ ExtractAttemptRaises
    \/ ExtractRetry

SpecRetry == InitRetry /\ [][Retry]_vars

\* C19: an id validates true exactly when, as given, it has the fifteen
\* characters of the format (2 digits, 5 uppercase letters, 4 digits, 1
\* uppercase letter, 1 uppercase letter or digit, Z, 1 uppercase letter or
\* digit) and its first two digits are a number from 01 to 38.
C19_GstValidAsGiven ==
    (call.fn = "validate_indian_gst" /\ call.result # NoRecord) =>
        (call.result.valid <=>
            /\ MatchesGstPattern(call.gst_id)
            /\ StateCode(call.gst_id) \in 1..38)

\* C20: a lookup for INR returns rate 1.0 with source base_currency, having
\* read no snapshot and called no live source, whatever the date and the store.
C20_BaseCurrencyIsOne ==
    (rq.pc # "idle" /\ rq.currency = "INR") =>
        /\ rq.pc = "done"
        /\ rq.response.rate = 10000
        /\ rq.response.source = "base_currency"
        /\ rq.store_reads = 0 /\ rq.live_calls = 0

\* C20 witness: INR was asked for a date whose snapshot is in the store, with
\* an INR rate in it, and the answer came without a read.
C20_Witness ==
    /\ rq.pc = "done" /\ rq.currency = "INR" /\ rq.store_reads = 0
    /\ \E x \in exchange_rates : x.date = rq.date_str /\ "INR" \in DOMAIN x.rates

\* The suppliers of the organization of document d.
OwnSuppliers(d) == {s \in suppliers : s.org_id = d.org_id}

\* C15: the document an upload assembles refers to no supplier or to a supplier
\* of its own organization, and its supplier id and match confidence are what
\* matching against the suppliers of its own organization alone gives.
C15_ResolutionStaysInOrg ==
    [][\A p \in UploadSlots :
          (upl[p].pc = "extract" /\ upl'[p].pc = "insert") =>
              LET d == upl'[p].document
                  result == upl'[p].result
              IN  /\ \/ d.supplier_id = NULL
                     \/ \E s \in OwnSuppliers(d) : s.id = d.supplier_id
                  /\ \E own \in Orderings(OwnSuppliers(d)) :
                        LET m == match_supplier(result.supplier_name,
                                                result.supplier_gst, own)
                        IN  /\ m.matched_id = d.supplier_id
                            /\ m.confidence = d.supplier_match_confidence]_vars

\* C15 witness: a persisted document whose extracted GST id is carried by a
\* supplier of another organization and by none of its own: it is left
\* unmatched or matched by name to a supplier of its own organization.
C15_Witness ==
    \E d \in documents, other \in suppliers, s \in suppliers :
        /\ other.org_id # d.org_id
        /\ other.gst_id = upl[d.id].result.supplier_gst
        /\ s.org_id = d.org_id /\ s.gst_id # other.gst_id
        /\ d.supplier_id \in {NULL, s.id}

\* C18: no two distinct suppliers of one organization share a non-empty GST id.
C18_TaxIdUniquePerOrg ==
    \A s, t \in suppliers :
        (s.id # t.id /\ s.org_id = t.org_id /\ s.gst_id # "") => s.gst_id # t.gst_id

\* C11: an upload whose extractor raised goes on with the fallback result and
\* completes: it returns success, not a duplicate, and its document is
\* persisted with version 1.
C11_ExtractorExceptionFallsBack ==
    \A p \in UploadSlots :
        upl[p].raised ~>
            /\ upl[p].pc = "done"
            /\ upl[p].response.code = 200
            /\ ~upl[p].response.duplicate
            /\ \E d \in documents :
                  /\ d.id = p /\ d.version_number = 1
                  /\ d.ai_provider_used = "mock"

\* C11 witness: an upload whose extractor raised has returned its document,
\* flagged for review by the fallback's low date confidence.
C11_Witness ==
    \E p \in UploadSlots :
        /\ upl[p].raised /\ upl[p].pc = "done" /\ upl[p].response.code = 200
        /\ upl[p].document \in documents
        /\ upl[p].document.requires_review

\* C12: once an upload has ended, the file it wrote has its document: a failed
\* intake leaves no file behind.
C12_NoFileWithoutDocument ==
    \A f \in files :
        upl[f].pc = "done" => \E d \in documents : d.id = f

\* The low-confidence notifications that refer to the document of upload p.
NotificationsOf(p) ==
    {n \in notifications : n.type = "low_confidence" /\ n.related_id = p}

\* C13: an upload that persisted its document is reported successful whatever
\* became of the notification, a notification is recorded only for a document
\* that requires review, and only once the document is persisted.
C13_NotificationBestEffort ==
    /\ \A p \in UploadSlots :
          (upl[p].pc = "done" /\ \E d \in documents : d.id = p) =>
              /\ upl[p].response.code = 200
              /\ NotificationsOf(p) # {} => upl[p].document.requires_review
    /\ \A n \in notifications : \E d \in documents : d.id = n.related_id

\* C14: every upload that was received returns.
C14_EveryIngestTerminates ==
    \A p \in UploadSlots : (upl[p].pc # "idle") ~> (upl[p].pc = "done")
\* The snapshots dated on or before a date, and the latest of them.
NotAfter(date_str) == {x \in exchange_rates : TextLeq(x.date, date_str)}
LatestNotAfter(date_str) ==
    {x \in NotAfter(date_str) : \A y \in NotAfter(date_str) : TextLeq(y.date, x.date)}

\* The nearest lookup of the call in progress takes place in this step.
NearestLookup == rq.pc = "nearest" /\ rq'.pc # "nearest"

\* C21: when the nearest lookup finds no snapshot of the date asked and the
\* latest snapshot on or before it lists the currency, the call returns source
\* nearest_snapshot with the rate derived from that snapshot and that
\* snapshot's date; and a nearest_snapshot answer never comes from a snapshot
\* dated after the date asked.
C21_NearestSnapshot ==
    [][NearestLookup =>
         /\ ( /\ \A x \in exchange_rates : x.date # rq.date_str
              /\ LatestNotAfter(rq.date_str) # {}
              /\ \A x \in LatestNotAfter(rq.date_str) : rq.currency \in DOMAIN x.rates )
              => /\ rq'.pc = "done"
                 /\ rq'.response.source = "nearest_snapshot"
                 /\ \E x \in LatestNotAfter(rq.date_str) :
                      /\ rq'.response.rate = CrossRate(x.rates, rq.currency)
                      /\ rq'.response.date = x.date
                      /\ x.date # rq.date_str
         /\ rq'.pc = "done"
              => \E x \in NotAfter(rq.date_str) :
                   /\ rq.currency \in DOMAIN x.rates
                   /\ rq'.response.rate = CrossRate(x.rates, rq.currency)
                   /\ rq'.response.date = x.date]_vars

\* C21 witness: a call for 2024-03-01 answered from the snapshot of
\* 2024-02-29 while a snapshot of 2024-03-02 is in the store.
C21_Witness ==
    /\ rq.pc = "done" /\ rq.date_str = "2024-03-01" /\ rq.currency = "AED"
    /\ rq.response.source = "nearest_snapshot"
    /\ rq.response.date = "2024-02-29"
    /\ \E x \in exchange_rates : x.date = "2024-03-02" /\ "AED" \in DOMAIN x.rates

\* C22: when the live fetch of a call failed (it fell back to its fixed table)
\* or its rates do not list the currency, the call returns rate 1.0 with
\* source fallback.
C22_FailedFetchIsFallback ==
    (rq.pc = "done" /\ rq.live # NoRecord
       /\ (rq.live.is_fallback \/ rq.currency \notin DOMAIN rq.live.rates))
    => (rq.response.source = "fallback" /\ rq.response.rate = UnitRate)

\* C23: the store never holds two snapshots of one date.
C23_OneSnapshotPerDate ==
    \A x, y \in exchange_rates : x.date = y.date => x = y

\* C26: when some snapshot dated on or before the date asked lists the
\* currency, the nearest lookup ends the call with an answer from a stored
\* snapshot, and the live source is not consulted.
C26_LiveOnlyWithoutSnapshot ==
    [][(NearestLookup /\ \E x \in NotAfter(rq.date_str) : rq.currency \in DOMAIN x.rates)
         => /\ rq'.pc = "done"
            /\ rq'.response.source \in {"historical_snapshot", "nearest_snapshot"}
            /\ rq'.live_calls = 0]_vars

\* C24: a call of extract that has sent at least one request returns after at
\* most max_retries + 1 attempts, and the retries_used of its result is the
\* number of attempts made minus one, whether the last attempt succeeded or
\* every attempt failed.
C24_RetriesUsedIsAttemptsMinusOne ==
    (call.fn = "extract" /\ call.pc = "done" /\ call.attempts >= 1) =>
        /\ call.attempts <= call.max_retries + 1
        /\ call.result.retries_used = call.attempts - 1

\* C25: the content_hash of every stored document is the SHA-256 digest of the
\* bytes uploaded for it (the bytes kept in its file_base64), whatever
\* file_hash came with the upload.
C25_FingerprintOfRawBytes ==
    \A d \in documents :
        \E content \in Contents :
            /\ d.file_base64 = B64Encode(content)
            /\ d.content_hash = Sha256(content)

\* C27: every stored document has requires_review true exactly when its status
\* is needs_review.
C27_ReviewFlagMatchesStatus ==
    \A d \in documents : d.requires_review <=> d.status = "needs_review"

\* C28: every stored document refers to no supplier or to a stored supplier of
\* its own organization.
C28_SupplierOfOwnOrg ==
    \A d \in documents :
        d.supplier_id = NULL \/ \E s \in OwnSuppliers(d) : s.id = d.supplier_id

\* The update in slot q is received, and is applied, by this step.
UpdateReceived(q) == upd[q].pc = "idle" /\ upd'[q].pc # "idle"
UpdateApplied(q) == upd[q].pc = "apply" /\ upd'[q].pc = "done"

\* The fields an update with this change set may write.
WrittenFields(update_dict) ==
    DOMAIN update_dict \cup {"version_number"}
    \cup (IF "status" \in DOMAIN update_dict /\ update_dict["status"] = "processed"
          THEN {"requires_review"} ELSE {})

\* C29: the step that applies an update leaves every document in the store,
\* adds none, changes no document but the one of its own organization it
\* names, and on that one changes no field outside its change set,
\* version_number and (for status = processed) requires_review; no other step
\* of an update changes a document; and an update received for a document that
\* is absent or of another organization, or with an empty change set, returns
\* at once, changing no document and writing no version entry.
C29_UpdateFrame ==
    [][\A q \in UpdateSlots :
         /\ UpdateApplied(q) =>
               /\ {d.id : d \in documents'} = {d.id : d \in documents}
               /\ Cardinality(documents') = Cardinality(documents)
               /\ \A d \in documents : \E e \in documents' :
                     /\ e.id = d.id /\ DOMAIN e = DOMAIN d
                     /\ \A k \in DOMAIN d :
                           \/ e[k] = d[k]
                           \/ /\ d.id = upd[q].doc_id
                              /\ d.org_id = upd[q].user.org_id
                              /\ k \in WrittenFields(upd[q].update_dict)
               /\ UNCHANGED document_versions
         /\ (upd[q].pc # upd'[q].pc /\ ~UpdateApplied(q)) => UNCHANGED documents
         /\ ( /\ UpdateReceived(q)
              /\ \/ DOMAIN upd'[q].update_dict = {}
                 \/ ~\E d \in documents :
                       d.id = upd'[q].doc_id /\ d.org_id = upd'[q].user.org_id )
              => /\ upd'[q].pc = "done"
                 /\ UNCHANGED <<documents, document_versions>>]_vars

\* C29 witness: two documents of two organizations are stored, an update of
\* date and status has been applied to the first, and another update was
\* answered 404.
C29_Witness ==
    /\ \E d, e \in documents :
          /\ d.org_id # e.org_id
          /\ d.version_number = 2 /\ e.version_number = 1
          /\ d.document_date = "2024-03-02"
          /\ \E v \in document_versions :
                v.document_id = d.id /\ v.changed_fields = {"document_date", "status"}
    /\ \E q \in UpdateSlots : upd[q].pc = "done" /\ upd[q].response.code = 404

\* C30: after every step each version entry names a stored document of the
\* entry's own organization, and every version entry written before the step
\* is still there unchanged.
C30_LedgerRefersToDocuments ==
    [][/\ \A v \in document_versions' :
            \E d \in documents' : d.id = v.document_id /\ d.org_id = v.org_id
       /\ document_versions \subseteq document_versions']_vars

====
